---- MODULE Spec2Model ----
(***************************************************************************)
(* A model of pyzabbix/sender.py: ZabbixResponse (the aggregate and its    *)
(* parse), ZabbixMetric, and ZabbixSender (frame building, the socket      *)
(* exchange and the chunked send loop).                                    *)
(*                                                                         *)
(* Text is a sequence of characters (one-character strings), bytes are     *)
(* integers 0..255, a Decimal is its coefficient's digits and an exponent. *)
(***************************************************************************)
EXTENDS Integers, Sequences, FiniteSets, TLC

(***************************************************************************)
(* Bounds of the model.                                                    *)
(***************************************************************************)
MaxMetrics == 3
MaxChunkSize == 2
MaxEndpoints == 2
MaxParses == 2
MaxMessages == 2

(***************************************************************************)
(* Python values: None, False, a str and a dict (a sequence of             *)
(* <<key text, value>> pairs with distinct keys).  A call that may raise   *)
(* gives Raised or Ok(value).                                              *)
(***************************************************************************)
None == [type |-> "NoneType"]
False == [type |-> "bool"]
Str(t) == [type |-> "str", text |-> t]
Dict(items) == [type |-> "dict", items |-> items]

Raised == [ok |-> FALSE]
Ok(v) == [ok |-> TRUE, val |-> v]

(* bool(v): None, False, the empty str and the empty dict are falsy. *)
Truthy(v) ==
    CASE v.type = "NoneType" -> FALSE
      [] v.type = "bool" -> FALSE
      [] v.type = "str" -> v.text # <<>>
      [] v.type = "dict" -> v.items # <<>>
      [] v.type = "int" -> v.val # 0
      [] v.type = "list" -> v.items # <<>>

Min(a, b) == IF a < b THEN a ELSE b
Max(a, b) == IF a > b THEN a ELSE b

(***************************************************************************)
(* Characters and digits.                                                  *)
(***************************************************************************)
DigitChars == <<"0", "1", "2", "3", "4", "5", "6", "7", "8", "9">>

IsDigit(c) == \E d \in 1..10 : DigitChars[d] = c

DigitVal(c) == (CHOOSE d \in 1..10 : DigitChars[d] = c) - 1

RECURSIVE Repeat(_, _)
Repeat(x, n) == IF n <= 0 THEN <<>> ELSE <<x>> \o Repeat(x, n - 1)

RECURSIVE Concat(_)
Concat(ss) == IF ss = <<>> THEN <<>> ELSE Head(ss) \o Concat(Tail(ss))

(* The decimal digits of a natural number, most significant first. *)
RECURSIVE NatDigits(_)
NatDigits(n) == IF n < 10 THEN <<n>> ELSE NatDigits(n \div 10) \o <<n % 10>>

(* The text of a sequence of digits. *)
DigitText(ds) == [i \in 1..Len(ds) |-> DigitChars[ds[i] + 1]]

(***************************************************************************)
(* int(text) for a text of decimal digits: the empty text is a ValueError. *)
(***************************************************************************)
RECURSIVE IntValue(_)
IntValue(t) ==
    IF t = <<>> THEN 0
    ELSE (10 * IntValue(SubSeq(t, 1, Len(t) - 1))) + DigitVal(t[Len(t)])

int(t) ==
    IF t = <<>> \/ \E i \in 1..Len(t) : ~IsDigit(t[i]) THEN Raised ELSE Ok(IntValue(t))

(***************************************************************************)
(* decimal.Decimal: [int |-> digits of the coefficient without leading     *)
(* zeros, exp |-> exponent].  Sums are rounded to the default context's    *)
(* precision, half to even.                                                *)
(***************************************************************************)
DecimalPrec == 28

RECURSIVE StripZeros(_)
StripZeros(ds) ==
    IF Len(ds) > 1 /\ Head(ds) = 0 THEN StripZeros(Tail(ds))
    ELSE IF ds = <<>> THEN <<0>> ELSE ds

DecZero == [int |-> <<0>>, exp |-> 0]

(* Decimal(text) for a text matched by \d*\.\d* ; "." alone is an InvalidOperation. *)
Decimal(t) ==
    IF \A i \in 1..Len(t) : t[i] # "." THEN Raised
    ELSE
        LET dot == CHOOSE i \in 1..Len(t) : t[i] = "." /\ \A j \in 1..(i - 1) : t[j] # "."
            intpart == SubSeq(t, 1, dot - 1)
            fracpart == SubSeq(t, dot + 1, Len(t))
            digs == intpart \o fracpart
        IN  IF digs = <<>> \/ \E i \in 1..Len(digs) : ~IsDigit(digs[i]) THEN Raised
            ELSE Ok([int |-> StripZeros([i \in 1..Len(digs) |-> DigitVal(digs[i])]),
                     exp |-> 0 - Len(fracpart)])

(* a + b for digit sequences of the same length, with the final carry. *)
RECURSIVE AddCarry(_, _, _)
AddCarry(a, b, carry) ==
    IF a = <<>> THEN (IF carry = 0 THEN <<>> ELSE <<carry>>)
    ELSE
        LET n == Len(a)
            s == a[n] + b[n] + carry
        IN  AddCarry(SubSeq(a, 1, n - 1), SubSeq(b, 1, n - 1), s \div 10) \o <<s % 10>>

AddDigits(a, b) ==
    LET n == Max(Len(a), Len(b))
    IN  StripZeros(AddCarry(Repeat(0, n - Len(a)) \o a, Repeat(0, n - Len(b)) \o b, 0))

(* The coefficient of d written with exponent e <= d.exp. *)
Rescale(d, e) == StripZeros(d.int \o Repeat(0, d.exp - e))

(* Decimal._fix: round to DecimalPrec significant digits, half to even. *)
DecFix(d) ==
    IF Len(d.int) <= DecimalPrec THEN d
    ELSE
        LET drop == Len(d.int) - DecimalPrec
            kept == SubSeq(d.int, 1, DecimalPrec)
            rest == SubSeq(d.int, DecimalPrec + 1, Len(d.int))
            restZero == \A i \in 2..Len(rest) : rest[i] = 0
            up == \/ rest[1] > 5
                  \/ rest[1] = 5 /\ ~restZero
                  \/ rest[1] = 5 /\ restZero /\ kept[DecimalPrec] % 2 = 1
            c == IF up THEN AddDigits(kept, <<1>>) ELSE kept
        IN  IF Len(c) > DecimalPrec
            THEN [int |-> SubSeq(c, 1, DecimalPrec), exp |-> d.exp + drop + 1]
            ELSE [int |-> c, exp |-> d.exp + drop]

(* Decimal.__add__ of two non-negative decimals. *)
DecAdd(a, b) ==
    LET e == Min(a.exp, b.exp)
    IN  DecFix([int |-> AddDigits(Rescale(a, e), Rescale(b, e)), exp |-> e])

(* Decimal.__eq__: numerical equality. *)
DecEq(a, b) ==
    LET e == Min(a.exp, b.exp)
    IN  Rescale(a, e) = Rescale(b, e)

(***************************************************************************)
(* Text constants of the source.                                           *)
(***************************************************************************)
K_response == <<"r", "e", "s", "p", "o", "n", "s", "e">>
K_info == <<"i", "n", "f", "o">>
T_success == <<"s", "u", "c", "c", "e", "s", "s">>

(***************************************************************************)
(* The pattern compiled in ZabbixResponse.__init__:                        *)
(*   [Pp]rocessed:? <int>;? [Ff]ailed:? <int>;? [Tt]otal:? <int>;?         *)
(*   [Ss]econds spent:? <dec>                                              *)
(* where <int> is the group of \d* and <dec> the group of \d*\.\d* , as a  *)
(* sequence of elements.  Every optional character and every digit run is  *)
(* followed by an element that cannot match what it would give back, so    *)
(* matching greedily without backtracking is the regex's match.            *)
(***************************************************************************)
Class(cs) == [kind |-> "class", chars |-> cs]
Lit(t) == [kind |-> "lit", text |-> t]
Opt(c) == [kind |-> "opt", char |-> c]
GroupInt == [kind |-> "digits"]
GroupDec == [kind |-> "decimal"]

pattern ==
    << Class({"P", "p"}), Lit(<<"r", "o", "c", "e", "s", "s", "e", "d">>),
       Opt(":"), Lit(<<" ">>), GroupInt, Opt(";"), Lit(<<" ">>),
       Class({"F", "f"}), Lit(<<"a", "i", "l", "e", "d">>),
       Opt(":"), Lit(<<" ">>), GroupInt, Opt(";"), Lit(<<" ">>),
       Class({"T", "t"}), Lit(<<"o", "t", "a", "l">>),
       Opt(":"), Lit(<<" ">>), GroupInt, Opt(";"), Lit(<<" ">>),
       Class({"S", "s"}),
       Lit(<<"e", "c", "o", "n", "d", "s", " ", "s", "p", "e", "n", "t">>),
       Opt(":"), Lit(<<" ">>), GroupDec >>

(* The character at position i, "" past the end. *)
CharAt(s, i) == IF i \in 1..Len(s) THEN s[i] ELSE ""

(* The first position at or after i that holds no digit. *)
RECURSIVE DigitsEnd(_, _)
DigitsEnd(s, i) == IF IsDigit(CharAt(s, i)) THEN DigitsEnd(s, i + 1) ELSE i

(* The groups captured by pat matched at position i of s, or Raised for no match. *)
RECURSIVE MatchFrom(_, _, _, _)
MatchFrom(s, i, pat, groups) ==
    IF pat = <<>> THEN Ok(groups)
    ELSE
        LET e == Head(pat)
            rest == Tail(pat)
        IN  CASE e.kind = "class" ->
                    IF CharAt(s, i) \in e.chars THEN MatchFrom(s, i + 1, rest, groups)
                    ELSE Raised
              [] e.kind = "lit" ->
                    IF i + Len(e.text) - 1 <= Len(s) /\ SubSeq(s, i, i + Len(e.text) - 1) = e.text
                    THEN MatchFrom(s, i + Len(e.text), rest, groups)
                    ELSE Raised
              [] e.kind = "opt" ->
                    MatchFrom(s, IF CharAt(s, i) = e.char THEN i + 1 ELSE i, rest, groups)
              [] e.kind = "digits" ->
                    LET j == DigitsEnd(s, i)
                    IN  MatchFrom(s, j, rest, Append(groups, SubSeq(s, i, j - 1)))
              [] e.kind = "decimal" ->
                    LET j == DigitsEnd(s, i)
                    IN  IF CharAt(s, j) = "."
                        THEN LET k == DigitsEnd(s, j + 1)
                             IN  MatchFrom(s, k, rest, Append(groups, SubSeq(s, i, k - 1)))
                        ELSE Raised

(* regex.search: the match at the leftmost position that has one. *)
search(s) ==
    LET found == {i \in 1..(Len(s) + 1) : MatchFrom(s, i, pattern, <<>>).ok}
        first == CHOOSE i \in found : \A j \in found : i <= j
    IN  IF found = {} THEN Raised ELSE MatchFrom(s, first, pattern, <<>>)

(***************************************************************************)
(* dict.get(k): the value stored under key k, None for a missing key.      *)
(***************************************************************************)
DictGet(d, k) ==
    IF \E i \in 1..Len(d.items) : d.items[i][1] = k
    THEN d.items[CHOOSE i \in 1..Len(d.items) : d.items[i][1] = k][2]
    ELSE None

(***************************************************************************)
(* ZabbixResponse.                                                         *)
(***************************************************************************)
NewZabbixResponse ==
    [processed |-> 0, failed |-> 0, total |-> 0, time |-> DecZero, chunk |-> 0]

(* The four += of parse on the converted groups, the raise of a group that *)
(* does not convert included: each counter is updated as soon as its own   *)
(* group converts, so a raise leaves the updates made before it.           *)
Accumulate(self, p, f, t, d) ==
    IF ~p.ok THEN [self |-> self, raised |-> TRUE]
    ELSE IF ~f.ok
    THEN [self |-> [self EXCEPT !.processed = @ + p.val], raised |-> TRUE]
    ELSE IF ~t.ok
    THEN [self |-> [self EXCEPT !.processed = @ + p.val, !.failed = @ + f.val],
          raised |-> TRUE]
    ELSE IF ~d.ok
    THEN [self |-> [self EXCEPT !.processed = @ + p.val, !.failed = @ + f.val,
                                !.total = @ + t.val],
          raised |-> TRUE]
    ELSE [self |-> [self EXCEPT !.processed = @ + p.val, !.failed = @ + f.val,
                                !.total = @ + t.val, !.time = DecAdd(@, d.val),
                                !.chunk = @ + 1],
          raised |-> FALSE]

(* res.group(i) of the match res converted: res.group raises when nothing  *)
(* matched, int and Decimal when they cannot convert their group.          *)
ParseMatch(self, res) ==
    IF ~res.ok THEN [self |-> self, raised |-> TRUE]
    ELSE Accumulate(self, int(res.val[1]), int(res.val[2]), int(res.val[3]),
                    Decimal(res.val[4]))

(* self._regex.search(info): raises on an info that is no str. *)
ParseInfo(self, info) ==
    IF info.type # "str" THEN [self |-> self, raised |-> TRUE]
    ELSE ParseMatch(self, search(info.text))

(* parse: the instance after the call and whether the call raised.         *)
(* response.get raises on a response that is no dict (False).              *)
parse(self, response) ==
    IF response.type # "dict" THEN [self |-> self, raised |-> TRUE]
    ELSE ParseInfo(self, DictGet(response, K_info))

(***************************************************************************)
(* What a server reports for one chunk, and the info texts that carry it.  *)
(* A report is [processed, failed, total: Nat, time: Decimal].             *)
(***************************************************************************)

(* The text of a Decimal d with d.exp <= 0: digits, a point, -d.exp digits. *)
DecText(d) ==
    LET n == 0 - d.exp
        digs == Repeat(0, n + 1 - Len(d.int)) \o d.int
        k == Len(digs) - n
    IN  DigitText(SubSeq(digs, 1, k)) \o <<".">> \o DigitText(SubSeq(digs, k + 1, Len(digs)))

NatText(n) == DigitText(NatDigits(n))

L_processed == <<"p", "r", "o", "c", "e", "s", "s", "e", "d", ":", " ">>
L_failed == <<";", " ", "f", "a", "i", "l", "e", "d", ":", " ">>
L_total == <<";", " ", "t", "o", "t", "a", "l", ":", " ">>
L_seconds ==
    <<";", " ", "s", "e", "c", "o", "n", "d", "s", " ", "s", "p", "e", "n", "t", ":", " ">>
O_processed == <<"P", "r", "o", "c", "e", "s", "s", "e", "d", " ">>
O_failed == <<" ", "F", "a", "i", "l", "e", "d", " ">>
O_total == <<" ", "T", "o", "t", "a", "l", " ">>
O_seconds == <<" ", "S", "e", "c", "o", "n", "d", "s", " ", "s", "p", "e", "n", "t", " ">>

(* The two layouts servers use, with all four fields and a number in each. *)
GoodShapes == {"new", "old"}

(* Layouts that lack a field or hold no number in one. *)
BadShapes ==
    {"no_seconds", "no_failed", "empty_processed", "empty_failed", "empty_total",
     "empty_seconds", "alpha_total", "alpha_seconds", "dot_seconds", "junk_seconds"}

(* A number in every field, the seconds without a decimal point. *)
OtherShapes == {"int_seconds"}

InfoShapes == GoodShapes \cup BadShapes \cup OtherShapes

NewInfo(p, f, t, sec) == Concat(<<L_processed, p, L_failed, f, L_total, t, L_seconds, sec>>)

Layout(shape, P, F, T, S) ==
    CASE shape = "new" -> NewInfo(P, F, T, S)
      [] shape = "old" -> Concat(<<O_processed, P, O_failed, F, O_total, T, O_seconds, S>>)
      [] shape = "no_seconds" -> Concat(<<L_processed, P, L_failed, F, L_total, T>>)
      [] shape = "no_failed" -> Concat(<<L_processed, P, L_total, T, L_seconds, S>>)
      [] shape = "empty_processed" -> NewInfo(<<>>, F, T, S)
      [] shape = "empty_failed" -> NewInfo(P, <<>>, T, S)
      [] shape = "empty_total" -> NewInfo(P, F, <<>>, S)
      [] shape = "empty_seconds" -> NewInfo(P, F, T, <<>>)
      [] shape = "alpha_total" -> NewInfo(P, F, <<"x">>, S)
      [] shape = "alpha_seconds" -> NewInfo(P, F, T, <<"x", ".", "y">>)
      [] shape = "dot_seconds" -> NewInfo(P, F, T, <<".">>)
      [] shape = "junk_seconds" -> NewInfo(P, F, T, <<"0", ".", "x">>)
      [] shape = "int_seconds" -> NewInfo(P, F, T, P)

InfoText(shape, r) ==
    Layout(shape, NatText(r.processed), NatText(r.failed), NatText(r.total), DecText(r.time))

(* 0.001, 0.002, 1.50 and a time of 29 significant digits. *)
LongTime ==
    [int |-> <<1, 2, 3, 4, 5, 6, 7, 8, 9, 0, 1, 2, 3, 4, 5, 6, 7, 8, 9, 0,
               1, 2, 3, 4, 5, 6, 7, 8, 9>>, exp |-> -29]

Reports ==
    { [processed |-> 3, failed |-> 1, total |-> 4, time |-> [int |-> <<1>>, exp |-> -3]],
      [processed |-> 2, failed |-> 0, total |-> 2, time |-> [int |-> <<2>>, exp |-> -3]],
      [processed |-> 10, failed |-> 5, total |-> 7, time |-> [int |-> <<1, 5, 0>>, exp |-> -2]],
      [processed |-> 1, failed |-> 0, total |-> 1, time |-> LongTime] }

FirstReport == CHOOSE r \in Reports : r.processed = 3

NoReport == [none |-> TRUE]

(* The response dict of a server that accepted the chunk. *)
SuccessResponse(shape, r) ==
    Dict(<< <<K_response, Str(T_success)>>, <<K_info, Str(InfoText(shape, r))>> >>)

(* The same without an info field. *)
NoInfoResponse == Dict(<< <<K_response, Str(T_success)>> >>)

(***************************************************************************)
(* Characters, code points and UTF-8.  A character below 128 is            *)
(* AsciiChars[code + 1]; any other is named "U+<code>".                     *)
(***************************************************************************)
AsciiChars ==
    << "x00", "x01", "x02", "x03", "x04", "x05", "x06", "x07", "x08", "x09", "x0a", "x0b",
       "x0c", "x0d", "x0e", "x0f", "x10", "x11", "x12", "x13", "x14", "x15", "x16", "x17",
       "x18", "x19", "x1a", "x1b", "x1c", "x1d", "x1e", "x1f", " ", "!", "\"", "#",
       "$", "%", "&", "'", "(", ")", "*", "+", ",", "-", ".", "/",
       "0", "1", "2", "3", "4", "5", "6", "7", "8", "9", ":", ";",
       "<", "=", ">", "?", "@", "A", "B", "C", "D", "E", "F", "G",
       "H", "I", "J", "K", "L", "M", "N", "O", "P", "Q", "R", "S",
       "T", "U", "V", "W", "X", "Y", "Z", "[", "\\", "]", "^", "_",
       "x60", "a", "b", "c", "d", "e", "f", "g", "h", "i", "j", "k",
       "l", "m", "n", "o", "p", "q", "r", "s", "t", "u", "v", "w",
       "x", "y", "z", "{", "|", "}", "~", "x7f" >>

(* e with acute (2 bytes), the euro sign (3 bytes), an emoji (4 bytes). *)
NonAscii == {233, 8364, 128512}

chr(cp) == IF cp < 128 THEN AsciiChars[cp + 1] ELSE "U+" \o ToString(cp)

OrdTable == [c \in {chr(cp) : cp \in (0..127) \cup NonAscii} |->
                CHOOSE cp \in (0..127) \cup NonAscii : chr(cp) = c]

ord(c) == OrdTable[c]

(* The UTF-8 bytes of one code point. *)
Utf8(cp) ==
    IF cp < 128 THEN <<cp>>
    ELSE IF cp < 2048 THEN <<192 + (cp \div 64), 128 + (cp % 64)>>
    ELSE IF cp < 65536
    THEN <<224 + (cp \div 4096), 128 + ((cp \div 64) % 64), 128 + (cp % 64)>>
    ELSE <<240 + (cp \div 262144), 128 + ((cp \div 4096) % 64),
           128 + ((cp \div 64) % 64), 128 + (cp % 64)>>

(* str.encode("utf-8"): the bytes of every character, in order. *)
RECURSIVE encode(_)
encode(t) ==
    IF t = <<>> THEN <<>>
    ELSE IF Len(t) = 1 THEN Utf8(ord(t[1]))
    ELSE LET h == Len(t) \div 2
         IN  encode(SubSeq(t, 1, h)) \o encode(SubSeq(t, h + 1, Len(t)))

IsCont(b) == b \in 128..191

(* The number of bytes the lead byte b announces, 0 for a byte that leads nothing. *)
Utf8Len(b) ==
    IF b < 128 THEN 1
    ELSE IF b \in 194..223 THEN 2
    ELSE IF b \in 224..239 THEN 3
    ELSE IF b \in 240..244 THEN 4
    ELSE 0

(* The code point of the sequence of n bytes at position i. *)
Utf8CodePoint(bs, i, n) ==
    CASE n = 1 -> bs[i]
      [] n = 2 -> ((bs[i] - 192) * 64) + (bs[i + 1] - 128)
      [] n = 3 -> ((bs[i] - 224) * 4096) + ((bs[i + 1] - 128) * 64) + (bs[i + 2] - 128)
      [] n = 4 -> ((bs[i] - 240) * 262144) + ((bs[i + 1] - 128) * 4096)
                  + ((bs[i + 2] - 128) * 64) + (bs[i + 3] - 128)

(* bytes.decode("utf-8"): Ok(text), or Raised on an invalid or cut         *)
(* sequence.  Every byte that is no continuation byte starts a character;  *)
(* the bytes decode when the first byte starts one and every start is      *)
(* followed by exactly the continuation bytes its lead byte announces.     *)
decode(bs) ==
    LET starts == {i \in 1..Len(bs) : ~IsCont(bs[i])}
        WellFormed(i) ==
            LET b == bs[i]
                n == Utf8Len(b)
            IN  /\ n > 0
                /\ i + n - 1 <= Len(bs)
                /\ \A j \in (i + 1)..(i + n - 1) : IsCont(bs[j])
                /\ (i + n <= Len(bs) => ~IsCont(bs[i + n]))
                /\ (b = 224 => bs[i + 1] >= 160)
                /\ (b = 237 => bs[i + 1] <= 159)
                /\ (b = 240 => bs[i + 1] >= 144)
                /\ (b = 244 => bs[i + 1] <= 143)
        IsChar(c) == c # ""
    IN  IF (bs # <<>> /\ IsCont(bs[1])) \/ \E i \in starts : ~WellFormed(i) THEN Raised
        ELSE Ok(SelectSeq([i \in 1..Len(bs) |->
                              IF i \in starts
                              THEN chr(Utf8CodePoint(bs, i, Utf8Len(bs[i])))
                              ELSE ""],
                          IsChar))

(***************************************************************************)
(* json.dumps (ensure_ascii) of a str, an int and a dict of those, and     *)
(* json.loads of an object whose values are strings.                       *)
(***************************************************************************)
HexChars ==
    <<"0", "1", "2", "3", "4", "5", "6", "7", "8", "9", "a", "b", "c", "d", "e", "f">>

(* \uXXXX *)
EscapeU(n) ==
    <<"\\", "u", HexChars[((n \div 4096) % 16) + 1], HexChars[((n \div 256) % 16) + 1],
      HexChars[((n \div 16) % 16) + 1], HexChars[(n % 16) + 1]>>

(* One character inside a JSON string written by json.dumps. *)
EscapeChar(c) ==
    LET cp == ord(c)
    IN  CASE c = "\"" -> <<"\\", "\"">>
          [] c = "\\" -> <<"\\", "\\">>
          [] cp = 10 -> <<"\\", "n">>
          [] cp = 13 -> <<"\\", "r">>
          [] cp = 9 -> <<"\\", "t">>
          [] cp = 8 -> <<"\\", "b">>
          [] cp = 12 -> <<"\\", "f">>
          [] cp < 32 \/ (cp > 126 /\ cp < 65536) -> EscapeU(cp)
          [] cp >= 65536 ->
                EscapeU(55296 + ((cp - 65536) \div 1024)) \o EscapeU(56320 + ((cp - 65536) % 1024))
          [] OTHER -> <<c>>

RECURSIVE EscapeText(_)
EscapeText(t) ==
    IF t = <<>> THEN <<>>
    ELSE IF Len(t) = 1 THEN EscapeChar(t[1])
    ELSE LET h == Len(t) \div 2
         IN  EscapeText(SubSeq(t, 1, h)) \o EscapeText(SubSeq(t, h + 1, Len(t)))

DumpsStr(t) == <<"\"">> \o EscapeText(t) \o <<"\"">>

PyInt(n) == [type |-> "int", val |-> n]

DumpsValue(v) ==
    IF v.type = "str" THEN DumpsStr(v.text)
    ELSE IF v.val < 0 THEN <<"-">> \o NatText(0 - v.val) ELSE NatText(v.val)

RECURSIVE DumpsItems(_)
DumpsItems(items) ==
    IF items = <<>> THEN <<>>
    ELSE DumpsStr(items[1][1]) \o <<":", " ">> \o DumpsValue(items[1][2])
         \o (IF Len(items) > 1 THEN <<",", " ">> ELSE <<>>) \o DumpsItems(Tail(items))

json_dumps(d) == <<"{">> \o DumpsItems(d.items) \o <<"}">>

(* The end of the JSON string that opens at position i of t (t[i] is a     *)
(* quote), 0 when it is not closed.  Strings with a backslash are outside  *)
(* what the modelled servers send and count as not closed.                 *)
StringEnd(t, j) ==
    LET marks == {k \in j..Len(t) : t[k] = "\"" \/ t[k] = "\\"}
        first == CHOOSE k \in marks : \A l \in marks : k <= l
    IN  IF marks = {} THEN 0
        ELSE IF t[first] = "\\" THEN 0
        ELSE first

(* dict[k] = v *)
DictSet(items, k, v) ==
    IF \E i \in 1..Len(items) : items[i][1] = k
    THEN [i \in 1..Len(items) |-> IF items[i][1] = k THEN <<k, v>> ELSE items[i]]
    ELSE Append(items, <<k, v>>)

(* The members "key":"value",... from position i up to the closing brace. *)
RECURSIVE LoadsMembers(_, _, _)
LoadsMembers(t, i, items) ==
    IF CharAt(t, i) # "\"" THEN Raised
    ELSE
        LET ke == StringEnd(t, i + 1)
        IN  IF ke = 0 \/ CharAt(t, ke + 1) # ":" \/ CharAt(t, ke + 2) # "\"" THEN Raised
            ELSE
                LET ve == StringEnd(t, ke + 3)
                    k == SubSeq(t, i + 1, ke - 1)
                    v == Str(SubSeq(t, ke + 3, ve - 1))
                IN  IF ve = 0 THEN Raised
                    ELSE IF CharAt(t, ve + 1) = "}" /\ ve + 1 = Len(t)
                    THEN Ok(Dict(DictSet(items, k, v)))
                    ELSE IF CharAt(t, ve + 1) = ","
                    THEN LoadsMembers(t, ve + 2, DictSet(items, k, v))
                    ELSE Raised

(* json.loads: Ok(dict), or Raised for a text that is not JSON. *)
json_loads(t) ==
    IF CharAt(t, 1) # "{" THEN Raised
    ELSE IF Len(t) = 2 /\ t[2] = "}" THEN Ok(Dict(<<>>))
    ELSE LoadsMembers(t, 2, <<>>)

(***************************************************************************)
(* ZabbixMetric.  The object is its __dict__; a clock that is falsy (None, *)
(* 0, an empty str or list) sets no attribute, a truthy int is stored, any *)
(* other truthy clock raises.                                              *)
(***************************************************************************)
K_host == <<"h", "o", "s", "t">>
K_key == <<"k", "e", "y">>
K_value == <<"v", "a", "l", "u", "e">>
K_clock == <<"c", "l", "o", "c", "k">>

ZabbixMetric(host, key, value, clock) ==
    LET base == << <<K_host, Str(host)>>, <<K_key, Str(key)>>, <<K_value, Str(value)>> >>
    IN  IF Truthy(clock)
        THEN IF clock.type = "int"
             THEN Ok(Dict(Append(base, <<K_clock, PyInt(clock.val)>>)))
             ELSE Raised
        ELSE Ok(Dict(base))

(* ZabbixMetric.__repr__, which str(m) uses. *)
repr(m) == json_dumps(m)

(***************************************************************************)
(* ZabbixSender: building the frame.                                       *)
(***************************************************************************)
create_messages(metrics) == [i \in 1..Len(metrics) |-> repr(metrics[i])]

(* ','.join(messages) *)
RECURSIVE Join(_)
Join(messages) ==
    IF messages = <<>> THEN <<>>
    ELSE IF Len(messages) = 1 THEN messages[1]
    ELSE messages[1] \o <<",">> \o Join(Tail(messages))

RequestHead ==
    <<"{", "\"", "r", "e", "q", "u", "e", "s", "t", "\"", ":", "\"", "s", "e", "n", "d",
      "e", "r", " ", "d", "a", "t", "a", "\"", ",", "\"", "d", "a", "t", "a", "\"", ":", "[">>

create_request(messages) == encode(RequestHead \o Join(messages) \o <<"]", "}">>)

(* struct.pack('<Q', n): 8 bytes, least significant first. *)
RECURSIVE LittleEndian(_, _)
LittleEndian(n, k) == IF k = 0 THEN <<>> ELSE <<n % 256>> \o LittleEndian(n \div 256, k - 1)

(* The eight bytes of n, most significant first: struct.pack('>Q', n). *)
BigEndian(n) == [i \in 1..8 |-> LittleEndian(n, 8)[9 - i]]

pack_Q(n) == LittleEndian(n, 8)

(* struct.unpack('<Q', bs)[0] *)
RECURSIVE unpack_Q(_)
unpack_Q(bs) == IF bs = <<>> THEN 0 ELSE bs[1] + (256 * unpack_Q(Tail(bs)))

(* b'ZBXD\x01' *)
ZBXD1 == <<90, 66, 88, 68, 1>>

create_packet(request) == ZBXD1 \o pack_Q(Len(request)) \o request

(***************************************************************************)
(* A connected socket as the client sees it: the segments the peer's data  *)
(* arrives in, and what a read finds after them: "eof" (the peer closed)   *)
(* or "error" (the read raises).                                           *)
(***************************************************************************)

(* A recv that hands over the whole segment, whatever was asked. *)
RecvAll(sock, n) ==
    IF sock.segs = <<>>
    THEN IF sock.end = "eof" THEN Ok([data |-> <<>>, sock |-> sock]) ELSE Raised
    ELSE Ok([data |-> Head(sock.segs), sock |-> [sock EXCEPT !.segs = Tail(sock.segs)]])

(* sock.recv(n): at most n bytes of the first segment; b'' at "eof". *)
recv(sock, n) ==
    IF sock.segs = <<>>
    THEN IF sock.end = "eof" THEN Ok([data |-> <<>>, sock |-> sock]) ELSE Raised
    ELSE
        LET seg == Head(sock.segs)
            k == Min(n, Len(seg))
            left == IF k = Len(seg) THEN Tail(sock.segs)
                    ELSE <<SubSeq(seg, k + 1, Len(seg))>> \o Tail(sock.segs)
        IN  Ok([data |-> SubSeq(seg, 1, k), sock |-> [sock EXCEPT !.segs = left]])

(* The loop of _receive, from the buffer buf. *)
RECURSIVE ReceiveLoop(_, _, _)
ReceiveLoop(sock, count, buf) ==
    IF Len(buf) >= count THEN Ok([data |-> buf, sock |-> sock])
    ELSE
        LET r == recv(sock, count - Len(buf))
        IN  IF ~r.ok THEN Raised
            ELSE IF r.val.data = <<>> THEN Ok([data |-> buf, sock |-> sock])
            ELSE ReceiveLoop(r.val.sock, count, buf \o r.val.data)

receive(sock, count) == ReceiveLoop(sock, count, <<>>)

HeaderLen == 13

startswith(bs, prefix) == Len(bs) >= Len(prefix) /\ SubSeq(bs, 1, Len(prefix)) = prefix

(* json.loads(response_body.decode("utf-8")) and the close and return that *)
(* follow: a recv that raises, a body that does not decode and a text that *)
(* is not JSON leave the function before connection.close().               *)
Loaded(response_header, loaded) ==
    IF loaded.ok
    THEN [raised |-> FALSE, result |-> loaded.val, closed |-> TRUE,
          header |-> response_header]
    ELSE [raised |-> TRUE, result |-> None, closed |-> FALSE, header |-> response_header]

Loads(text) == IF text.ok THEN json_loads(text.val) ELSE Raised

Decoded(response_body) == IF response_body.ok THEN decode(response_body.val.data) ELSE Raised

(* The check of the header read from sock, and the branch it takes. *)
CheckHeader(response_header, sock) ==
    IF ~startswith(response_header, ZBXD1) \/ Len(response_header) # HeaderLen
    THEN [raised |-> FALSE, result |-> False, closed |-> TRUE, header |-> response_header]
    ELSE Loaded(response_header,
                Loads(Decoded(recv(sock, unpack_Q(SubSeq(response_header, 6, HeaderLen))))))

HeaderRead(h) ==
    IF ~h.ok THEN [raised |-> TRUE, result |-> None, closed |-> FALSE, header |-> <<>>]
    ELSE CheckHeader(h.val.data, h.val.sock)

(* _get_response: [raised, result, closed, header]. *)
get_response(sock) == HeaderRead(receive(sock, HeaderLen))

(* A slice that counts from one where Python counts from zero. *)
SliceFromOne(seq, lo, hi) == SubSeq(seq, Max(lo, 1), Min(hi, Len(seq)))

(* metrics[lo:hi] for 0 <= lo *)
PySlice(seq, lo, hi) ==
    LET a == Min(lo, Len(seq))
        b == Max(a, Min(hi, Len(seq)))
    IN  SubSeq(seq, a + 1, b)

(***************************************************************************)
(* What a server may do in one exchange, and the bytes it puts on the      *)
(* wire.  Servers write compact JSON: no space, no escape.                 *)
(***************************************************************************)
T_failed == <<"f", "a", "i", "l", "e", "d">>
T_html == <<"<", "h", "t", "m", "l", ">">>

RECURSIVE ServerMembers(_)
ServerMembers(items) ==
    IF items = <<>> THEN <<>>
    ELSE <<"\"">> \o items[1][1] \o <<"\"", ":", "\"">> \o items[1][2].text \o <<"\"">>
         \o (IF Len(items) > 1 THEN <<",">> ELSE <<>>) \o ServerMembers(Tail(items))

ServerJson(d) == <<"{">> \o ServerMembers(d.items) \o <<"}">>

(* The reports servers give in a send: 3/1/4 in 0.001 s and 10/5/7 in 1.50 s. *)
SendReports == {r \in Reports : r.processed \in {3, 10}}

ReportKinds == {"success", "success_split", "long_announce", "rejected", "no_response_field"}

PlainKinds ==
    {"empty_object", "no_info", "bad_info", "not_json", "bad_magic", "bad_version",
     "short_header", "no_data", "reset", "body_reset", "body_cut"}

(* A plain success comes with either report, the other kinds that carry a  *)
(* report with the first.                                                  *)
Servers ==
    [kind : {"success"}, report : SendReports]
    \cup [kind : ReportKinds \ {"success"}, report : {FirstReport}]
    \cup [kind : PlainKinds, report : {NoReport}]

(* The layout of the info text a server of kind k writes. *)
ServerShape(k) ==
    CASE k = "success_split" -> "old"
      [] k = "bad_info" -> "no_seconds"
      [] OTHER -> "new"

ServerReport(srv) == IF srv.report = NoReport THEN FirstReport ELSE srv.report

(* The object a server of kind k answers with, info being its info text. *)
ServerDict(k, info) ==
    CASE k = "rejected" -> Dict(<< <<K_response, Str(T_failed)>>, <<K_info, info>> >>)
      [] k = "no_response_field" -> Dict(<< <<K_info, info>> >>)
      [] k = "empty_object" -> Dict(<<>>)
      [] k = "no_info" -> NoInfoResponse
      [] OTHER -> Dict(<< <<K_response, Str(T_success)>>, <<K_info, info>> >>)

(* The object a server answers with. *)
ServerObject(srv) ==
    ServerDict(srv.kind, Str(InfoText(ServerShape(srv.kind), ServerReport(srv))))

(* The body text a server means to send. *)
ServerBody(srv) == IF srv.kind = "not_json" THEN T_html ELSE ServerJson(ServerObject(srv))

(* The socket the client reads from when a server of kind k sends body. *)
Stream(k, body, header, longHeader) ==
    CASE k = "success_split" ->
            [segs |-> <<SubSeq(header, 1, 5), SubSeq(header, 6, 13), body>>, end |-> "eof"]
      [] k = "long_announce" -> [segs |-> <<longHeader \o body>>, end |-> "eof"]
      [] k = "bad_magic" ->
            [segs |-> <<(<<90, 66, 88, 88, 1>> \o SubSeq(header, 6, 13)) \o body>>,
             end |-> "eof"]
      [] k = "bad_version" ->
            [segs |-> <<(<<90, 66, 88, 68, 2>> \o SubSeq(header, 6, 13)) \o body>>,
             end |-> "eof"]
      [] k = "short_header" -> [segs |-> <<SubSeq(header, 1, 5)>>, end |-> "eof"]
      [] k = "no_data" -> [segs |-> <<>>, end |-> "eof"]
      [] k = "reset" -> [segs |-> <<>>, end |-> "error"]
      [] k = "body_reset" -> [segs |-> <<header>>, end |-> "error"]
      [] k = "body_cut" ->
            [segs |-> <<header, SubSeq(body, 1, Len(body) \div 2),
                        SubSeq(body, (Len(body) \div 2) + 1, Len(body))>>,
             end |-> "eof"]
      [] OTHER -> [segs |-> <<header \o body>>, end |-> "eof"]

Framed(k, body) ==
    Stream(k, body, ZBXD1 \o pack_Q(Len(body)), ZBXD1 \o pack_Q(Len(body) + 4))

ServerStream(srv) == Framed(srv.kind, encode(ServerBody(srv)))

(* The first bytes of what the server sends, up to a header's length. *)
Prefix(all) == SubSeq(all, 1, Min(13, Len(all)))

StreamHead(srv) == Prefix(Concat(ServerStream(srv).segs))

(***************************************************************************)
(* The metrics callers pass: metric i has key "k<i>"; metric 1 has no      *)
(* clock, the others the clock i.                                          *)
(***************************************************************************)
MetricPool ==
    [i \in 1..MaxMetrics |->
        ZabbixMetric(<<"h">>, <<"k">> \o NatText(i), <<"1">>,
                     IF i = 1 THEN None ELSE PyInt(i)).val]

(***************************************************************************)
(* The state.                                                              *)
(*   chunk_size, zabbix_uri  the sender's attributes                       *)
(*   metrics, m, result      send(): its argument, loop index, aggregate   *)
(*   chunk, packet, ep, response, connection                               *)
(*                           _chunk_send(): its argument, the frame, the   *)
(*                           position in zabbix_uri, the last response and *)
(*                           the socket ("none", "created", "open",        *)
(*                           "closed")                                     *)
(*   pc                      where the call stands                         *)
(*   outcome                 what send() returned or raised                *)
(*   handed, exchanges, server, seen, reported                             *)
(*                           history of the running call: the chunks       *)
(*                           handed to _chunk_send; one record per         *)
(*                           connection attempt; what the server of the    *)
(*                           latest exchange did; whether in some exchange *)
(*                           a server refused, sent a bad header, sent a   *)
(*                           short body, and whether an endpoint before    *)
(*                           the last accepted with another report than    *)
(*                           FirstReport; and per chunk what the last      *)
(*                           endpoint's server reported                    *)
(*   entered                 right after send() is called: whether the     *)
(*                           sender was "new" or "used"; "none" from the   *)
(*                           first step of the loop on                     *)
(*   agg, calls              a ZabbixResponse that parse is called on      *)
(*                           directly, and those calls                     *)
(*   messages, request, built                                              *)
(*                           messages handed to _create_request directly,  *)
(*                           the request made of them and the packet       *)
(*                           _create_packet built from it                  *)
(***************************************************************************)
VARIABLES chunk_size, zabbix_uri, metrics, m, result, chunk, packet, ep, response,
          connection, pc, outcome, handed, exchanges, server, seen, reported, entered,
          agg, calls, messages, request, built, clock, made,
          wire, rx_sock, rx_count, rx_buf, rx_reads, rx_pc

sendVars == <<chunk_size, zabbix_uri, metrics, m, result, chunk, packet, ep, response,
              connection, pc, outcome, handed, exchanges, server, seen, reported, entered>>
parseVars == <<agg, calls>>
packetVars == <<messages, request, built>>
metricVars == <<clock, made>>
receiveVars == <<wire, rx_sock, rx_count, rx_buf, rx_reads, rx_pc>>
vars == <<sendVars, parseVars, packetVars, metricVars, receiveVars>>

NoOutcome == [kind |-> "none"]
NoServer == [kind |-> "none", report |-> NoReport]
NoneSeen == [refused |-> FALSE, bad_header |-> FALSE, short_body |-> FALSE, elsewhere |-> FALSE]

(* ZabbixSender.__init__ with zabbix_uri as given or as loaded: at least   *)
(* one endpoint; chunk_size is stored unchecked.                           *)
SenderInit ==
    /\ chunk_size \in (-1)..MaxChunkSize
    /\ zabbix_uri \in {[i \in 1..n |-> i] : n \in 1..MaxEndpoints}
    /\ metrics = <<>>
    /\ m = 0
    /\ result = NewZabbixResponse
    /\ chunk = <<>>
    /\ packet = <<>>
    /\ ep = 0
    /\ response = None
    /\ connection = "none"
    /\ pc = "idle"
    /\ outcome = NoOutcome
    /\ handed = <<>>
    /\ exchanges = <<>>
    /\ server = NoServer
    /\ seen = NoneSeen
    /\ reported = <<>>
    /\ entered = "none"

(* A send() that goes on with the aggregate of the call before. *)
SendKeep ==
    /\ pc \in {"idle", "returned", "raised"}
    /\ \E n \in 0..MaxMetrics : metrics' = SubSeq(MetricPool, 1, n)
    /\ result' = result
    /\ m' = 0
    /\ chunk' = <<>>
    /\ packet' = <<>>
    /\ ep' = 0
    /\ response' = None
    /\ connection' = "none"
    /\ handed' = <<>>
    /\ exchanges' = <<>>
    /\ server' = NoServer
    /\ seen' = NoneSeen
    /\ reported' = <<>>
    /\ IF chunk_size = 0
       THEN pc' = "raised" /\ outcome' = [kind |-> "ValueError"]
       ELSE pc' = "loop" /\ outcome' = NoOutcome
    /\ entered' = (IF pc = "idle" THEN "new" ELSE "used")
    /\ UNCHANGED <<chunk_size, zabbix_uri>>
    /\ UNCHANGED <<parseVars, packetVars, metricVars, receiveVars>>

(* send(metrics) is called: a fresh ZabbixResponse, then range(), which    *)
(* raises ValueError for a step of 0.                                      *)
Send ==
    /\ pc \in {"idle", "returned", "raised"}
    /\ \E n \in 0..MaxMetrics : metrics' = SubSeq(MetricPool, 1, n)
    /\ result' = NewZabbixResponse
    /\ m' = 0
    /\ chunk' = <<>>
    /\ packet' = <<>>
    /\ ep' = 0
    /\ response' = None
    /\ connection' = "none"
    /\ handed' = <<>>
    /\ exchanges' = <<>>
    /\ server' = NoServer
    /\ seen' = NoneSeen
    /\ reported' = <<>>
    /\ IF chunk_size = 0
       THEN pc' = "raised" /\ outcome' = [kind |-> "ValueError"]
       ELSE pc' = "loop" /\ outcome' = NoOutcome
    /\ entered' = (IF pc = "idle" THEN "new" ELSE "used")
    /\ UNCHANGED <<chunk_size, zabbix_uri>>
    /\ UNCHANGED <<parseVars, packetVars, metricVars, receiveVars>>

(* A range that also yields len(metrics). *)
InRangeEmpty == chunk_size > 0 /\ m <= Len(metrics)

(* Whether range(0, len(metrics), chunk_size) yields m. *)
InRange == chunk_size > 0 /\ m < Len(metrics)

(* The loop of send() takes the next m: _chunk_send is called with the     *)
(* slice and builds messages, request and packet.                          *)
NextChunk ==
    /\ pc = "loop"
    /\ InRange
    /\ chunk' = PySlice(metrics, m, m + chunk_size)
    /\ packet' = create_packet(create_request(create_messages(chunk')))
    /\ handed' = Append(handed, chunk')
    /\ ep' = 1
    /\ pc' = "connect"
    /\ entered' = "none"
    /\ UNCHANGED <<chunk_size, zabbix_uri, metrics, m, result, response, connection,
                   outcome, exchanges, server, seen, reported>>
    /\ UNCHANGED <<parseVars, packetVars, metricVars, receiveVars>>

(* The loop of send() is exhausted: send() returns result. *)
Return ==
    /\ pc = "loop"
    /\ ~InRange
    /\ pc' = "returned"
    /\ outcome' = [kind |-> "returned", value |-> result]
    /\ entered' = "none"
    /\ UNCHANGED <<chunk_size, zabbix_uri, metrics, m, result, chunk, packet, ep, response,
                   connection, handed, exchanges, server, seen, reported>>
    /\ UNCHANGED <<parseVars, packetVars, metricVars, receiveVars>>

Exchange(conn, sent) ==
    [chunk |-> Len(handed), host_addr |-> zabbix_uri[ep], conn |-> conn, sent |-> sent]

(* A connect that, when it fails, goes on to the next host_addr if there   *)
(* is one.                                                                 *)
ConnectNext ==
    /\ pc = "connect"
    /\ \/ /\ connection' = "open"
          /\ exchanges' = Append(exchanges, Exchange("open", FALSE))
          /\ pc' = "sendall"
          /\ UNCHANGED <<outcome, ep>>
       \/ /\ connection' = "created"
          /\ exchanges' = Append(exchanges, Exchange("created", FALSE))
          /\ IF ep < Len(zabbix_uri)
             THEN pc' = "connect" /\ ep' = ep + 1 /\ outcome' = outcome
             ELSE pc' = "raised" /\ ep' = ep /\ outcome' = [kind |-> "OSError"]
    /\ UNCHANGED <<entered, chunk_size, zabbix_uri, metrics, m, result, chunk, packet, response,
                   handed, server, seen, reported>>
    /\ UNCHANGED <<parseVars, packetVars, metricVars, receiveVars>>

(* socket.socket() and connect(host_addr): connects, or raises. *)
Connect ==
    /\ pc = "connect"
    /\ \/ /\ connection' = "open"
          /\ exchanges' = Append(exchanges, Exchange("open", FALSE))
          /\ pc' = "sendall"
          /\ outcome' = outcome
       \/ /\ connection' = "created"
          /\ exchanges' = Append(exchanges, Exchange("created", FALSE))
          /\ pc' = "raised"
          /\ outcome' = [kind |-> "OSError"]
    /\ UNCHANGED <<entered, chunk_size, zabbix_uri, metrics, m, result, chunk, packet, ep, response,
                   handed, server, seen, reported>>
    /\ UNCHANGED <<parseVars, packetVars, metricVars, receiveVars>>

(* The record of the exchange in progress, changed. *)
Current(conn, sent) ==
    [exchanges EXCEPT ![Len(exchanges)] = [@ EXCEPT !.conn = conn, !.sent = sent]]

(* connection.sendall(packet): sends all, or raises; then the handler      *)
(* closes the connection and raises Exception(err).                        *)
Sendall ==
    /\ pc = "sendall"
    /\ \/ /\ exchanges' = Current("open", TRUE)
          /\ pc' = "get_response"
          /\ UNCHANGED <<connection, outcome>>
       \/ /\ connection' = "closed"
          /\ exchanges' = Current("closed", FALSE)
          /\ pc' = "raised"
          /\ outcome' = [kind |-> "Exception", arg |-> [type |-> "OSError"]]
    /\ UNCHANGED <<entered, chunk_size, zabbix_uri, metrics, m, result, chunk, packet, ep, response,
                   handed, server, seen, reported>>
    /\ UNCHANGED <<parseVars, packetVars, metricVars, receiveVars>>

(* What a server did, by what it put on the wire. *)
Refuses(srv) == srv.kind \in {"rejected", "no_response_field", "empty_object"}
WrongHead(head) == ~startswith(head, ZBXD1) \/ Len(head) # 13
BadHeader(srv) == srv.kind \notin {"none", "reset"} /\ WrongHead(StreamHead(srv))
ShortBody(srv) == srv.kind \in {"long_announce", "body_cut"}
Elsewhere(srv) == srv.kind = "success" /\ srv.report # FirstReport

(* seen, with the exchange in progress noted. *)
Noted(srv) ==
    [refused |-> seen.refused \/ Refuses(srv),
     bad_header |-> seen.bad_header \/ BadHeader(srv),
     short_body |-> seen.short_body \/ ShortBody(srv),
     elsewhere |-> seen.elsewhere \/ (ep < Len(zabbix_uri) /\ Elsewhere(srv))]

(* _get_response on the socket of each server. *)
ServerResult == [srv \in Servers |-> get_response(ServerStream(srv))]

(* A _chunk_send that keeps the response of the first host_addr. *)
RespondFirst(srv, r) ==
    /\ connection' = (IF r.closed THEN "closed" ELSE "open")
    /\ exchanges' = Current(IF r.closed THEN "closed" ELSE "open", TRUE)
    /\ server' = srv
    /\ seen' = Noted(srv)
    /\ reported' = IF ep = Len(zabbix_uri) THEN Append(reported, srv.report) ELSE reported
    /\ IF r.raised
       THEN /\ pc' = "raised"
            /\ outcome' = [kind |-> "ReadError"]
            /\ response' = response
       ELSE /\ pc' = "check"
            /\ outcome' = outcome
            /\ response' = IF ep = 1 THEN r.result ELSE response

(* _get_response(connection) gives r against the server srv. *)
Respond(srv, r) ==
    /\ connection' = (IF r.closed THEN "closed" ELSE "open")
    /\ exchanges' = Current(IF r.closed THEN "closed" ELSE "open", TRUE)
    /\ server' = srv
    /\ seen' = Noted(srv)
    /\ reported' = IF ep = Len(zabbix_uri) THEN Append(reported, srv.report) ELSE reported
    /\ IF r.raised
       THEN /\ pc' = "raised"
            /\ outcome' = [kind |-> "ReadError"]
            /\ response' = response
       ELSE /\ pc' = "check"
            /\ outcome' = outcome
            /\ response' = r.result

GetResponse ==
    /\ pc = "get_response"
    /\ \E srv \in Servers : Respond(srv, ServerResult[srv])
    /\ UNCHANGED <<entered, chunk_size, zabbix_uri, metrics, m, result, chunk, packet, ep, handed>>
    /\ UNCHANGED <<parseVars, packetVars, metricVars, receiveVars>>

(* The peer has accepted the request and neither sends nor closes: the     *)
(* socket made by socket.socket() has no timeout, so connection.recv does  *)
(* not return and send() stays inside _get_response.                       *)
Hang ==
    /\ pc = "get_response"
    /\ pc' = "blocked"
    /\ UNCHANGED <<entered, chunk_size, zabbix_uri, metrics, m, result, chunk, packet, ep, response,
                   connection, outcome, handed, exchanges, server, seen, reported>>
    /\ UNCHANGED <<parseVars, packetVars, metricVars, receiveVars>>

(* if response and response.get('response') != 'success' *)
Rejected(resp) == Truthy(resp) /\ DictGet(resp, K_response) # Str(T_success)

(* The check of the response raises Exception(response). *)
Reject ==
    /\ pc = "check"
    /\ Rejected(response)
    /\ pc' = "raised"
    /\ outcome' = [kind |-> "Exception", arg |-> response]
    /\ UNCHANGED <<entered, chunk_size, zabbix_uri, metrics, m, result, chunk, packet, ep, response,
                   connection, handed, exchanges, server, seen, reported>>
    /\ UNCHANGED <<parseVars, packetVars, metricVars, receiveVars>>

(* A _chunk_send that is done with the chunk after one host_addr. *)
OneEndpoint ==
    /\ pc = "check"
    /\ ~Rejected(response)
    /\ ep < Len(zabbix_uri)
    /\ m' = m + chunk_size
    /\ pc' = "loop"
    /\ UNCHANGED <<entered, chunk_size, zabbix_uri, metrics, result, chunk, packet, ep, response,
                   connection, outcome, handed, exchanges, server, seen, reported>>
    /\ UNCHANGED <<parseVars, packetVars, metricVars, receiveVars>>

(* The check passes and the for loop takes the next host_addr. *)
NextEndpoint ==
    /\ pc = "check"
    /\ ~Rejected(response)
    /\ ep < Len(zabbix_uri)
    /\ ep' = ep + 1
    /\ pc' = "connect"
    /\ UNCHANGED <<entered, chunk_size, zabbix_uri, metrics, m, result, chunk, packet, response,
                   connection, outcome, handed, exchanges, server, seen, reported>>
    /\ UNCHANGED <<parseVars, packetVars, metricVars, receiveVars>>

(* The check passes after the last host_addr: _chunk_send returns response *)
(* and send() parses it into result, or parse raises.                      *)
Parsed(r) ==
    IF r.raised
    THEN pc' = "raised" /\ outcome' = [kind |-> "ParseError"] /\ UNCHANGED <<result, m>>
    ELSE pc' = "loop" /\ result' = r.self /\ m' = m + chunk_size /\ outcome' = outcome

ParseChunk ==
    /\ pc = "check"
    /\ ~Rejected(response)
    /\ ep = Len(zabbix_uri)
    /\ Parsed(parse(result, response))
    /\ UNCHANGED <<entered, chunk_size, zabbix_uri, metrics, chunk, packet, ep, response, connection,
                   handed, exchanges, server, seen, reported>>
    /\ UNCHANGED <<parseVars, packetVars, metricVars, receiveVars>>

(* The sender's attributes and a send() not yet called, as in SenderInit,  *)
(* for a model that calls something else.                                  *)
SenderIdle ==
    /\ chunk_size = 1
    /\ zabbix_uri = <<1>>
    /\ metrics = <<>>
    /\ m = 0
    /\ result = NewZabbixResponse
    /\ chunk = <<>>
    /\ packet = <<>>
    /\ ep = 0
    /\ response = None
    /\ connection = "none"
    /\ pc = "idle"
    /\ outcome = NoOutcome
    /\ handed = <<>>
    /\ exchanges = <<>>
    /\ server = NoServer
    /\ seen = NoneSeen
    /\ reported = <<>>
    /\ entered = "none"

(***************************************************************************)
(* ZabbixResponse used on its own: parse is called on one instance with    *)
(* the responses of ParseCases.                                            *)
(***************************************************************************)
ParseCases ==
    [shape : GoodShapes, report : Reports]
    \cup [shape : BadShapes \cup OtherShapes \cup {"absent"}, report : {FirstReport}]

(* The response of a case: "absent" has no info field. *)
CaseResponse(c) ==
    IF c.shape = "absent" THEN NoInfoResponse ELSE SuccessResponse(c.shape, c.report)

(* ZabbixResponse() *)
NewResponse ==
    /\ agg' = NewZabbixResponse
    /\ calls' = <<>>
    /\ UNCHANGED <<sendVars, packetVars, metricVars, receiveVars>>

Called(c, r) ==
    /\ agg' = r.self
    /\ calls' = Append(calls, [case |-> c, raised |-> r.raised])

(* agg.parse(response) *)
ParseCall ==
    /\ Len(calls) < MaxParses
    /\ \E c \in ParseCases : Called(c, parse(agg, CaseResponse(c)))
    /\ UNCHANGED <<sendVars, packetVars, metricVars, receiveVars>>

(***************************************************************************)
(* _create_request and _create_packet used on their own, on messages that  *)
(* are the repr of metrics or any other text.                              *)
(***************************************************************************)
LongMessage == [i \in 1..260 |-> "a"]

MessagePool ==
    {repr(MetricPool[i]) : i \in 1..MaxMetrics}
    \cup {<<chr(233)>>, <<chr(8364), "a">>, <<"b", chr(128512)>>, <<"{", "}">>, <<>>,
          LongMessage}

(* The caller puts one more message on its list. *)
AddMessage ==
    /\ request = <<>>
    /\ Len(messages) < MaxMessages
    /\ \E msg \in MessagePool : messages' = Append(messages, msg)
    /\ UNCHANGED <<sendVars, parseVars, metricVars, receiveVars, request, built>>

(* request = self._create_request(messages) *)
CreateRequest ==
    /\ request = <<>>
    /\ request' = create_request(messages)
    /\ UNCHANGED <<sendVars, parseVars, metricVars, receiveVars, messages, built>>

(* packet = self._create_packet(request) *)
CreatePacket ==
    /\ request # <<>>
    /\ built = <<>>
    /\ built' = create_packet(request)
    /\ UNCHANGED <<sendVars, parseVars, metricVars, receiveVars, messages, request>>

(***************************************************************************)
(* Constructing metrics: ZabbixMetric(host, key, value, clock) with the    *)
(* clock arguments a caller can pass, and the request made of the metric.  *)
(*   clock   the clock argument of the last construction                   *)
(*   made    what the construction gave: the metric or an exception        *)
(***************************************************************************)
List(items) == [type |-> "list", items |-> items]

IntClocks == {PyInt(0), PyInt(1), PyInt(1700000000)}
OtherClocks ==
    {Str(<<>>), Str(<<"a", "b", "c">>), Str(<<"1", "2">>), List(<<>>), List(<<PyInt(1)>>)}
ClockArgs == {None} \cup IntClocks \cup OtherClocks

HostNames == {<<"h">>, <<"h", "2">>}
KeyNames == {<<"k">>, <<"k", "2">>, <<"c", "p", "u">>}
ValueTexts == {<<"1">>, <<"0", ".", "5">>}

NotMade == [ok |-> FALSE, none |-> TRUE]

(* m = ZabbixMetric(host, key, value, clock) *)
NewMetric ==
    /\ \E host \in HostNames, key \in KeyNames, value \in ValueTexts, c \in ClockArgs :
          /\ clock' = c
          /\ made' = ZabbixMetric(host, key, value, c)
    /\ messages' = <<>>
    /\ request' = <<>>
    /\ UNCHANGED <<sendVars, parseVars, receiveVars, built>>

(* messages = self._create_messages([m]); request = self._create_request(messages) *)
EncodeMetric ==
    /\ made.ok
    /\ request = <<>>
    /\ messages' = create_messages(<<made.val>>)
    /\ request' = create_request(create_messages(<<made.val>>))
    /\ UNCHANGED <<sendVars, parseVars, built, metricVars, receiveVars>>

(***************************************************************************)
(* _receive(sock, count) read by read, against every way the peer's bytes  *)
(* can arrive.                                                             *)
(*   wire       the socket as it was when _receive was called              *)
(*   rx_sock    the socket now; rx_count the argument count; rx_buf is buf *)
(*   rx_reads   the calls of sock.recv made: bytes held, asked and got     *)
(*   rx_pc      "none", "reading", "returned" or "raised"                  *)
(***************************************************************************)
MaxStream == 4

(* The ways of cutting bs into non-empty segments. *)
RECURSIVE Splits(_)
Splits(bs) ==
    IF bs = <<>> THEN {<<>>}
    ELSE UNION {{<<SubSeq(bs, 1, k)>> \o rest : rest \in Splits(SubSeq(bs, k + 1, Len(bs)))} :
                k \in 1..Len(bs)}

Wires ==
    UNION {[segs : Splits([i \in 1..n |-> 64 + i]), end : {"eof", "error"}] : n \in 0..MaxStream}

(* self._receive(sock, count) is called: buf = b'' *)
CallReceive ==
    /\ rx_pc \in {"none", "returned", "raised"}
    /\ \E w \in Wires, c \in 0..(MaxStream + 1) :
          /\ wire' = w
          /\ rx_sock' = w
          /\ rx_count' = c
    /\ rx_buf' = <<>>
    /\ rx_reads' = <<>>
    /\ rx_pc' = "reading"
    /\ UNCHANGED <<sendVars, parseVars, packetVars, metricVars>>

(* chunk = sock.recv(count - len(buf)) gave r. *)
Read(asked, r) ==
    /\ rx_reads' = Append(rx_reads, [held |-> Len(rx_buf), asked |-> asked,
                                     got |-> IF r.ok THEN Len(r.val.data) ELSE -1])
    /\ IF ~r.ok
       THEN rx_pc' = "raised" /\ UNCHANGED <<rx_buf, rx_sock>>
       ELSE IF r.val.data = <<>>
       THEN rx_pc' = "returned" /\ UNCHANGED <<rx_buf, rx_sock>>
       ELSE rx_pc' = "reading" /\ rx_buf' = rx_buf \o r.val.data /\ rx_sock' = r.val.sock

(* One turn of the while loop: a read, then break or buf += chunk. *)
ReadMore ==
    /\ rx_pc = "reading"
    /\ Len(rx_buf) < rx_count
    /\ Read(rx_count - Len(rx_buf), recv(rx_sock, rx_count - Len(rx_buf)))
    /\ UNCHANGED <<wire, rx_count>>
    /\ UNCHANGED <<sendVars, parseVars, packetVars, metricVars>>

(* len(buf) < count is false: return buf *)
ReturnBuf ==
    /\ rx_pc = "reading"
    /\ Len(rx_buf) >= rx_count
    /\ rx_pc' = "returned"
    /\ UNCHANGED <<wire, rx_sock, rx_count, rx_buf, rx_reads>>
    /\ UNCHANGED <<sendVars, parseVars, packetVars, metricVars>>

IdleInit ==
    /\ agg = NewZabbixResponse
    /\ calls = <<>>
    /\ messages = <<>>
    /\ request = <<>>
    /\ built = <<>>
    /\ clock = None
    /\ made = NotMade
    /\ wire = [segs |-> <<>>, end |-> "eof"]
    /\ rx_sock = [segs |-> <<>>, end |-> "eof"]
    /\ rx_count = 0
    /\ rx_buf = <<>>
    /\ rx_reads = <<>>
    /\ rx_pc = "none"

Init == SenderInit /\ IdleInit

Next ==
    \/ Send \/ NextChunk \/ Return \/ Connect \/ Sendall \/ GetResponse \/ Hang
    \/ Reject \/ NextEndpoint \/ ParseChunk

Spec == Init /\ [][Next]_vars

(* send() runs in the caller's thread: between its call and its end the   *)
(* thread takes its next step, except inside a recv that does not return.  *)
Running == {"loop", "connect", "sendall", "get_response", "check"}
Stopped == {"idle", "returned", "raised", "blocked"}
Advance == pc \in Running /\ pc' \in (Running \cup Stopped) \ {pc}

SpecLive == Init /\ [][Next]_vars /\ WF_pc(Advance)

InitParse == SenderIdle /\ IdleInit

NextParse == NewResponse \/ ParseCall

SpecParse == InitParse /\ [][NextParse]_vars

InitPacket == SenderIdle /\ IdleInit

NextPacket == AddMessage \/ CreateRequest \/ CreatePacket

SpecPacket == InitPacket /\ [][NextPacket]_vars

InitMetric == SenderIdle /\ IdleInit

NextMetric == NewMetric \/ EncodeMetric

SpecMetric == InitMetric /\ [][NextMetric]_vars

InitReceive == SenderIdle /\ IdleInit

NextReceive == CallReceive \/ ReadMore \/ ReturnBuf

SpecReceive == InitReceive /\ [][NextReceive]_vars

(***************************************************************************)
(* Properties of send().                                                   *)
(***************************************************************************)

(* ceil(n / c) for c >= 1 *)
Ceil(n, c) == (n + c - 1) \div c

(* C1: with chunk_size >= 1 the i-th chunk handed to _chunk_send is the    *)
(* slice of the input that starts right after the (i-1)-th chunk's end and *)
(* holds chunk_size metrics, or those that are left if fewer are; the      *)
(* chunks handed so far, concatenated in the order handed, are a prefix of *)
(* the input, and all of it once send() has returned: no metric is         *)
(* dropped, duplicated or moved.                                           *)
C1_ChunksAreConsecutiveSlices ==
    chunk_size >= 1 =>
        /\ \A i \in 1..Len(handed) :
            /\ Len(handed[i]) \in 1..chunk_size
            /\ i < Len(handed) => Len(handed[i]) = chunk_size
            /\ handed[i] = [j \in 1..Len(handed[i]) |-> metrics[((i - 1) * chunk_size) + j]]
        /\ Len(Concat(handed)) <= Len(metrics)
        /\ Concat(handed) = SubSeq(metrics, 1, Len(Concat(handed)))
        /\ pc = "returned" => Concat(handed) = metrics

(* send() has returned after handing over three metrics as a chunk of two  *)
(* and a shorter last chunk.                                               *)
C1_Witness ==
    /\ pc = "returned"
    /\ chunk_size = 2
    /\ Len(metrics) = 3
    /\ Len(handed) = 2
    /\ Len(handed[2]) = 1

(* C2: with chunk_size >= 1 the exchanges of a send() come one after the   *)
(* other, chunk by chunk and within a chunk endpoint by endpoint in the    *)
(* configured order: the i-th exchange is that of chunk ((i-1) div E) + 1  *)
(* with endpoint ((i-1) mod E) + 1, every exchange before the latest has   *)
(* sent its packet and ended with its connection closed, and a send() that *)
(* returns has made ceil(n/c) exchanges with each endpoint, ceil(n/c) * E  *)
(* in all.                                                                 *)
C2_ExchangesInOrder ==
    chunk_size >= 1 =>
        LET E == Len(zabbix_uri)
            n == Len(metrics)
        IN  /\ \A i \in 1..Len(exchanges) :
                /\ exchanges[i].chunk = ((i - 1) \div E) + 1
                /\ exchanges[i].host_addr = zabbix_uri[((i - 1) % E) + 1]
                /\ i < Len(exchanges) => exchanges[i].conn = "closed"
                /\ i < Len(exchanges) => exchanges[i].sent
            /\ pc = "returned" =>
                /\ Len(exchanges) = Ceil(n, chunk_size) * E
                /\ \A e \in 1..E :
                    Cardinality({i \in 1..Len(exchanges) : exchanges[i].host_addr = zabbix_uri[e]})
                        = Ceil(n, chunk_size)
                /\ \A i \in 1..Len(exchanges) : exchanges[i].conn = "closed"

(* send() has returned after three metrics in chunks of two went to two    *)
(* endpoints: four exchanges.                                              *)
C2_Witness ==
    /\ pc = "returned"
    /\ chunk_size = 2
    /\ Len(metrics) = 3
    /\ Len(zabbix_uri) = 2
    /\ Len(exchanges) = 4
    /\ exchanges[3].chunk = 2
    /\ exchanges[3].host_addr = zabbix_uri[1]

(* C3: once a server has answered with a well-formed frame whose object    *)
(* has a response field other than "success", or none ({} included), the   *)
(* exchange with that server stays the latest exchange of the send(): the  *)
(* call is at the check of that response or has raised, and what it raises *)
(* is the error that carries the object the server sent.                   *)
C3_RefusalAbortsSend ==
    seen.refused =>
        /\ Refuses(server)
        /\ pc \in {"check", "raised"}
        /\ pc = "raised" => outcome = [kind |-> "Exception", arg |-> ServerObject(server)]

(* C4: once a server has sent a header that does not start with ZBXD\x01   *)
(* or is shorter than 13 bytes, the exchange with that server stays the    *)
(* latest exchange of the send(): the call is at the check of the response *)
(* or has raised; it never goes on to another endpoint or chunk and never  *)
(* returns an aggregate.                                                   *)
C4_BadHeaderAbortsSend ==
    seen.bad_header =>
        /\ BadHeader(server)
        /\ pc \in {"check", "raised"}

(* The sum of field f over the reports rs. *)
RECURSIVE SumOf(_, _)
SumOf(rs, f) == IF rs = <<>> THEN 0 ELSE rs[1][f] + SumOf(Tail(rs), f)

(* a + b of two decimals, every digit kept. *)
ExactAdd(a, b) ==
    [int |-> AddDigits(Rescale(a, Min(a.exp, b.exp)), Rescale(b, Min(a.exp, b.exp))),
     exp |-> Min(a.exp, b.exp)]

(* The exact sum of the times of the reports rs. *)
RECURSIVE TimeOf(_)
TimeOf(rs) == IF rs = <<>> THEN DecZero ELSE ExactAdd(rs[1].time, TimeOf(Tail(rs)))

C6_NoMetricsNoExchange ==
    (chunk_size >= 1 /\ metrics = <<>>) =>
        /\ exchanges = <<>>
        /\ handed = <<>>
        /\ connection = "none"
        /\ pc \in {"idle", "loop", "returned"}
        /\ pc = "returned" =>
            /\ outcome.kind = "returned"
            /\ outcome.value.processed = 0
            /\ outcome.value.failed = 0
            /\ outcome.value.total = 0
            /\ outcome.value.time = [int |-> <<0>>, exp |-> 0]
            /\ outcome.value.chunk = 0

(* send() of no metric has returned, with two endpoints configured. *)
C6_Witness ==
    /\ pc = "returned"
    /\ metrics = <<>>
    /\ chunk_size = 2
    /\ Len(zabbix_uri) = 2

(* C7: no exchange leaves its connection open: every exchange before the   *)
(* latest has its connection closed, and once send() has returned or       *)
(* raised so has the latest, however it ended.                             *)
C7_ConnectionsClosed ==
    /\ \A i \in 1..(Len(exchanges) - 1) : exchanges[i].conn # "open"
    /\ pc \in {"returned", "raised"} =>
        /\ connection # "open"
        /\ \A i \in 1..Len(exchanges) : exchanges[i].conn # "open"

(***************************************************************************)
(* Properties of the frame.                                                *)
(***************************************************************************)

(* The number of bytes UTF-8 writes the text t in: one per character below *)
(* U+0080, two below U+0800, three below U+10000, four from there on.      *)
Utf8Count(t) ==
    Len(t) + Cardinality({i \in 1..Len(t) : ord(t[i]) >= 128})
           + Cardinality({i \in 1..Len(t) : ord(t[i]) >= 2048})
           + Cardinality({i \in 1..Len(t) : ord(t[i]) >= 65536})

(* The i-th byte of the number n written least significant byte first:    *)
(* (n div 256^(i-1)) mod 256.                                              *)
RECURSIVE ByteOf(_, _)
ByteOf(n, i) == IF i = 1 THEN n % 256 ELSE ByteOf(n \div 256, i - 1)

(* C8: a packet _create_packet has built is the five bytes Z B X D 1, then *)
(* eight bytes that hold the payload's length as an unsigned little-endian *)
(* number, then the payload; the length is the number of bytes of the      *)
(* request text in UTF-8, and the packet is 13 + length bytes long.        *)
C8_PacketLayout ==
    built # <<>> =>
        /\ Len(built) = 13 + Len(request)
        /\ SubSeq(built, 1, 5) = <<90, 66, 88, 68, 1>>
        /\ \A i \in 1..8 : built[5 + i] = ByteOf(Len(request), i)
        /\ SubSeq(built, 14, Len(built)) = request
        /\ Len(request) = Utf8Count(RequestHead \o Join(messages) \o <<"]", "}">>)

(* A packet is built whose payload is at least 256 bytes long and has more *)
(* bytes than its text has characters.                                     *)
C8_Witness ==
    /\ built # <<>>
    /\ Len(request) >= 256
    /\ built[7] # 0
    /\ Len(request) > Len(RequestHead \o Join(messages) \o <<"]", "}">>)

(***************************************************************************)
(* Properties of ZabbixResponse.parse.                                     *)
(***************************************************************************)

(* C9: every call of parse on a response without info, or with an info     *)
(* that lacks one of the four fields or holds an empty or non-numeric      *)
(* value in one, has raised.                                               *)
C9_MalformedInfoRaises ==
    \A i \in 1..Len(calls) :
        calls[i].case.shape \in BadShapes \cup {"absent"} => calls[i].raised

(* The reports of the calls made. *)
CallReports == [i \in 1..Len(calls) |-> calls[i].case.report]

(* A fresh instance after parse on the responses of the cases cs in turn. *)
RECURSIVE ParseAll(_)
ParseAll(cs) ==
    IF cs = <<>> THEN NewZabbixResponse
    ELSE parse(ParseAll(SubSeq(cs, 1, Len(cs) - 1)), CaseResponse(cs[Len(cs)])).self

(* The calls made, in the order q. *)
Reordered(q) == [i \in 1..Len(calls) |-> calls[q[i]].case]

(* C10: after calls of parse that were all on well-formed info texts and   *)
(* all succeeded, processed, failed and total are the sums of the reported *)
(* values (total as reported, whatever processed + failed is), time is     *)
(* their exact decimal sum, chunk is the number of calls, and the calls in *)
(* any other order give the same four sums.                                *)
C10_ExactSumsInAnyOrder ==
    (\A i \in 1..Len(calls) : calls[i].case.shape \in GoodShapes /\ ~calls[i].raised) =>
        /\ agg.processed = SumOf(CallReports, "processed")
        /\ agg.failed = SumOf(CallReports, "failed")
        /\ agg.total = SumOf(CallReports, "total")
        /\ Rescale(agg.time, -40) = Rescale(TimeOf(CallReports), -40)
        /\ agg.chunk = Len(calls)
        /\ \A q \in Permutations(1..Len(calls)) :
            /\ ParseAll(Reordered(q)).processed = agg.processed
            /\ ParseAll(Reordered(q)).failed = agg.failed
            /\ ParseAll(Reordered(q)).total = agg.total
            /\ Rescale(ParseAll(Reordered(q)).time, -40) = Rescale(agg.time, -40)

(* C17: parse is all-or-nothing: a call of parse that raises, whatever the *)
(* reason, leaves processed, failed, total, time and chunk as they were    *)
(* before the call.                                                        *)
C17_ParseAllOrNothing ==
    [][(Len(calls') = Len(calls) + 1 /\ calls'[Len(calls')].raised) => agg' = agg]_vars

(* C12: every send() call eventually returns or fails, also when a peer    *)
(* accepts the request and then neither sends nor closes: a timeout ends   *)
(* the read and aborts the call.                                           *)
C12_SendReturnsOrFails ==
    [](pc \notin {"idle", "returned", "raised"} => <>(pc \in {"returned", "raised"}))

(* C16: once a server has sent a valid header and then fewer body bytes    *)
(* than the header announces, the exchange with that server stays the      *)
(* latest of the send(): the call is at the check of the response or has   *)
(* raised; it never parses that body into the aggregate, goes on or        *)
(* returns.                                                                *)
C16_ShortBodyAbortsSend ==
    seen.short_body =>
        /\ ShortBody(server)
        /\ pc \in {"check", "raised"}

(* The exchanges in which chunk j was sent to the e-th endpoint. *)
Transmissions(j, e) ==
    {i \in 1..Len(exchanges) :
        /\ exchanges[i].chunk = j
        /\ exchanges[i].host_addr = zabbix_uri[e]
        /\ exchanges[i].sent}

(* C14: when send() has failed, at its chunk k, every chunk before k was    *)
(* transmitted exactly once to every endpoint, chunk k to no endpoint      *)
(* after the failing one and exactly once to those before it, no later     *)
(* chunk was handed over or transmitted, and the caller has an error and   *)
(* no aggregate.                                                           *)
C14_FailureKeepsEarlierChunks ==
    pc = "raised" =>
        LET E == Len(zabbix_uri)
            k == Len(handed)
        IN  /\ outcome.kind \notin {"none", "returned"}
            /\ "value" \notin DOMAIN outcome
            /\ chunk_size = 0 => exchanges = <<>>
            /\ chunk_size # 0 =>
                /\ k >= 1
                /\ ep \in 1..E
                /\ Len(exchanges) = (k - 1) * E + ep
                /\ \A i \in 1..Len(exchanges) : exchanges[i].chunk <= k
                /\ \A j \in 1..(k - 1), e \in 1..E : Cardinality(Transmissions(j, e)) = 1
                /\ \A e \in 1..E :
                      Cardinality(Transmissions(k, e)) =
                          (IF e < ep THEN 1
                           ELSE IF e = ep /\ exchanges[Len(exchanges)].sent THEN 1
                           ELSE 0)

(* send() failed at the second of three chunks, at the first of two        *)
(* endpoints, after that endpoint had been sent the chunk.                 *)
C14_Witness ==
    /\ pc = "raised"
    /\ Len(metrics) = 3
    /\ chunk_size = 1
    /\ Len(zabbix_uri) = 2
    /\ Len(handed) = 2
    /\ ep = 1
    /\ Cardinality(Transmissions(1, 1)) = 1
    /\ Cardinality(Transmissions(1, 2)) = 1
    /\ Cardinality(Transmissions(2, 1)) = 1
    /\ Cardinality(Transmissions(2, 2)) = 0

(* C15: no step of send() changes the endpoint list or chunk_size, however *)
(* the call ends; and a send() called on a sender that has been used       *)
(* starts as on a new one, with a zero aggregate and nothing left of the   *)
(* call before, so that its aggregate counts the chunks of this call only  *)
(* and its result is that of the same call on a new sender.                *)
C15_SenderUnchangedAndFresh ==
    [][/\ chunk_size' = chunk_size
       /\ zabbix_uri' = zabbix_uri
       /\ result'.chunk <= Len(handed')
       /\ pc \in {"idle", "returned", "raised"} =>
            /\ result' = NewZabbixResponse
            /\ m' = 0
            /\ ep' = 0
            /\ response' = None
            /\ connection' = "none"
            /\ handed' = <<>>
            /\ exchanges' = <<>>
            /\ reported' = <<>>
            /\ pc' = (IF chunk_size = 0 THEN "raised" ELSE "loop")
            /\ outcome' = (IF chunk_size = 0 THEN [kind |-> "ValueError"] ELSE NoOutcome)]_vars

(* send() has just been called with metrics on a sender used before. *)
C15_Witness ==
    /\ entered = "used"
    /\ pc = "loop"
    /\ metrics # <<>>
    /\ result = NewZabbixResponse
    /\ exchanges = <<>>

(* C18: whatever integer chunk_size is, zero and negative included, a      *)
(* send() of at least one metric that has returned has handed every metric *)
(* over, in chunks that in order make up the input, and has transmitted    *)
(* each chunk exactly once to every endpoint: it never returns having sent *)
(* nothing.                                                                *)
C18_ReturnMeansAllSent ==
    (pc = "returned" /\ metrics # <<>>) =>
        /\ exchanges # <<>>
        /\ Concat(handed) = metrics
        /\ \A j \in 1..Len(handed), e \in 1..Len(zabbix_uri) :
              Cardinality(Transmissions(j, e)) = 1

(***************************************************************************)
(* Properties of _receive.                                                 *)
(***************************************************************************)
Sent == Concat(wire.segs)

(* C13: however the peer's stream is cut into segments, _receive returns   *)
(* the first min(count, bytes sent before closing) bytes in order; no read *)
(* asks for more than count less the bytes already held, so that no more   *)
(* than count bytes are consumed and the rest stays in the socket; and it  *)
(* returns fewer than count bytes only after a read that gave nothing.     *)
C13_ReceiveExactPrefix ==
    /\ Len(rx_buf) <= Min(rx_count, Len(Sent))
    /\ rx_buf = SubSeq(Sent, 1, Len(rx_buf))
    /\ Concat(rx_sock.segs) = SubSeq(Sent, Len(rx_buf) + 1, Len(Sent))
    /\ \A i \in 1..Len(rx_reads) :
          /\ rx_reads[i].asked >= 1
          /\ rx_reads[i].held + rx_reads[i].asked <= rx_count
          /\ rx_reads[i].got <= rx_reads[i].asked
    /\ rx_pc = "returned" =>
          /\ receive(wire, rx_count) = Ok([data |-> rx_buf, sock |-> rx_sock])
          /\ wire.end = "eof" => Len(rx_buf) = Min(rx_count, Len(Sent))
          /\ Len(rx_buf) < rx_count =>
                /\ rx_reads # <<>>
                /\ rx_reads[Len(rx_reads)].got = 0
                /\ rx_sock.segs = <<>>
    /\ rx_pc = "raised" => receive(wire, rx_count) = Raised

(* A header read of a stream that came in several segments and holds more  *)
(* than was asked for: the rest stays in the socket.                       *)
C13_Witness ==
    /\ rx_pc = "returned"
    /\ Len(wire.segs) >= 2
    /\ Len(rx_reads) >= 2
    /\ Len(rx_buf) = rx_count
    /\ rx_sock.segs # <<>>

(***************************************************************************)
(* Properties of ZabbixMetric.                                             *)
(***************************************************************************)

Constructed == made = Raised \/ made.ok

(* C11: constructing a ZabbixMetric with a supplied non-numeric clock (a   *)
(* non-empty string, the empty string, the empty list) fails; no metric is *)
(* ever made from a non-numeric clock.                                     *)
C11_NonNumericClockRaises ==
    (Constructed /\ clock \in OtherClocks) => made = Raised

(* The text json.dumps gives for a metric of host h, key k, value v and    *)
(* the clock c.                                                            *)
WithClock(h, k, v, c) ==
    <<"{", "\"", "h", "o", "s", "t", "\"", ":", " ", "\"">> \o h
    \o <<"\"", ",", " ", "\"", "k", "e", "y", "\"", ":", " ", "\"">> \o k
    \o <<"\"", ",", " ", "\"", "v", "a", "l", "u", "e", "\"", ":", " ", "\"">> \o v
    \o <<"\"", ",", " ", "\"", "c", "l", "o", "c", "k", "\"", ":", " ">> \o NatText(c)
    \o <<"}">>

Encoded == made.ok /\ request # <<>>

(* C19: a metric constructed with an integer clock c >= 0, 0 included,     *)
(* carries clock = c in the request payload; the clock field is absent     *)
(* only when no clock was supplied.                                        *)
C19_ClockIsEncoded ==
    (Encoded /\ clock \in IntClocks) =>
        LET host == DictGet(made.val, K_host).text
            key == DictGet(made.val, K_key).text
            value == DictGet(made.val, K_value).text
        IN  /\ DictGet(made.val, K_clock) = clock
            /\ request = encode(RequestHead \o WithClock(host, key, value, clock.val)
                                             \o <<"]", "}">>)

====
